---- MODULE Spec2Model ----
(***************************************************************************)
(* SaveNest: the client-side bookmark cache of components/BookmarkList.tsx *)
(* reconciled with the remote bookmarks table (Supabase: Postgres with     *)
(* row level security and a realtime change feed).                         *)
(*                                                                         *)
(* Strings are sequences of one-character strings, so that trimming,       *)
(* lower-casing, substring search and URL parsing are computed and not     *)
(* assumed.                                                                *)
(***************************************************************************)
EXTENDS Integers, Sequences, FiniteSets, Bags, TLC

(***************************************************************************)
(* Bounds of the model.                                                    *)
(***************************************************************************)
\* rows of the owner the remote store holds when the component mounts
MaxSeedRows == 2
\* rows inserted afterwards (identifiers are never reused)
MaxInserts == 1
\* requests and responses in flight at the same time
MaxInflight == 2
\* mutations the other sessions and users perform on the remote store
MaxRemoteOps == 1
\* handlers the user invokes (clicks, submissions, typed queries)
MaxIntents == 2

Owner == "u1"
OtherUser == "u2"

(***************************************************************************)
(* String literals.                                                        *)
(***************************************************************************)
EmptyStr == << >>
Blank == <<" ">>
StrGitHub == <<"G","i","t","H","u","b">>
StrGitHubPadded == <<" ">> \o StrGitHub
StrOther == <<"O","t","h","e","r">>
StrGit == <<"g","i","t">>
UrlExample == <<"h","t","t","p","s",":","/","/","e","x","a","m","p","l","e",".","c","o","m">>
UrlGitHub == <<"h","t","t","p","s",":","/","/","g","i","t","h","u","b",".","c","o","m">>
UrlGitHubPadded == <<" ">> \o UrlGitHub \o <<" ">>
SchemeHttp == <<"h","t","t","p",":","/","/">>
SchemeHttps == <<"h","t","t","p","s",":","/","/">>
Www == <<"w","w","w",".">>

(***************************************************************************)
(* String.prototype.trim, toLowerCase, includes, replace(first match).     *)
(***************************************************************************)
RECURSIVE TrimLeft(_)
TrimLeft(s) ==
  IF s # << >> /\ Head(s) = " " THEN TrimLeft(Tail(s)) ELSE s

RECURSIVE TrimRight(_)
TrimRight(s) ==
  IF s # << >> /\ s[Len(s)] = " " THEN TrimRight(SubSeq(s, 1, Len(s) - 1)) ELSE s

trim(s) == TrimRight(TrimLeft(s))

UpperLetters ==
  <<"A", "B", "C", "D", "E", "F", "G", "H", "I", "J", "K", "L", "M",
    "N", "O", "P", "Q", "R", "S", "T", "U", "V", "W", "X", "Y", "Z">>

LowerLetters ==
  <<"a", "b", "c", "d", "e", "f", "g", "h", "i", "j", "k", "l", "m",
    "n", "o", "p", "q", "r", "s", "t", "u", "v", "w", "x", "y", "z">>

LowerOf ==
  [c \in {UpperLetters[i] : i \in 1..Len(UpperLetters)} |->
     LowerLetters[CHOOSE i \in 1..Len(UpperLetters) : UpperLetters[i] = c]]

LowerChar(c) == IF c \in DOMAIN LowerOf THEN LowerOf[c] ELSE c

toLowerCase(s) == [i \in 1..Len(s) |-> LowerChar(s[i])]

StartsWith(s, p) == Len(p) <= Len(s) /\ SubSeq(s, 1, Len(p)) = p

\* s.includes(q): q occurs in s as a contiguous substring ("" always does)
includes(s, q) ==
  \E i \in 1..(Len(s) - Len(q) + 1) : SubSeq(s, i, i + Len(q) - 1) = q

\* s.replace(p, ''): the FIRST occurrence of p is removed, wherever it is
RemoveFirst(s, p) ==
  LET at == {i \in 1..(Len(s) - Len(p) + 1) : SubSeq(s, i, i + Len(p) - 1) = p}
      first == CHOOSE i \in at : \A j \in at : i <= j
  IN IF at = {} THEN s
     ELSE SubSeq(s, 1, first - 1) \o SubSeq(s, first + Len(p), Len(s))

(***************************************************************************)
(* new URL(url).hostname for http(s) URLs: the URL parser strips leading   *)
(* and trailing spaces, needs a scheme and a non-empty host, ends the host *)
(* at the first of / ? # : and lower-cases it. Anything else throws.       *)
(***************************************************************************)
HostOf(s) ==
  LET ends == {i \in 1..Len(s) : s[i] \in {"/", "?", "#", ":"}}
      first == CHOOSE i \in ends : \A j \in ends : i <= j
  IN IF ends = {} THEN s ELSE SubSeq(s, 1, first - 1)

HasScheme(u) == StartsWith(u, SchemeHttps) \/ StartsWith(u, SchemeHttp)

AfterScheme(u) ==
  IF StartsWith(u, SchemeHttps) THEN SubSeq(u, Len(SchemeHttps) + 1, Len(u))
  ELSE SubSeq(u, Len(SchemeHttp) + 1, Len(u))

URLParses(url) ==
  LET input == trim(url)
      host == HostOf(AfterScheme(input))
  IN /\ HasScheme(input)
     /\ host # << >>
     /\ \A i \in 1..Len(host) : host[i] # " "

hostname(url) == toLowerCase(HostOf(AfterScheme(trim(url))))

getDomain(url) ==
  IF URLParses(url) THEN RemoveFirst(hostname(url), Www) ELSE url

(***************************************************************************)
(* String.prototype.localeCompare on the model's alphabet: the default     *)
(* collation compares letters without regard to case first and, between    *)
(* strings equal up to case, puts the lower-case letter first.             *)
(***************************************************************************)
Alphabet ==
  <<" ", ".", "/", ":", "a", "b", "c", "d", "e", "f", "g", "h", "i", "j", "k", "l", "m",
    "n", "o", "p", "q", "r", "s", "t", "u", "v", "w", "x", "y", "z">>

RankOf ==
  [c \in {Alphabet[i] : i \in 1..Len(Alphabet)} |->
     CHOOSE i \in 1..Len(Alphabet) : Alphabet[i] = c]

CharRank(c) == IF LowerChar(c) \in DOMAIN RankOf THEN RankOf[LowerChar(c)] ELSE 0

\* -1, 0 or 1: the order of the sequences of numbers x and y
RECURSIVE CompareRanks(_, _)
CompareRanks(x, y) ==
  IF x = << >> /\ y = << >> THEN 0
  ELSE IF x = << >> THEN -1
  ELSE IF y = << >> THEN 1
  ELSE IF Head(x) < Head(y) THEN -1
  ELSE IF Head(x) > Head(y) THEN 1
  ELSE CompareRanks(Tail(x), Tail(y))

CaseRank(c) == IF LowerChar(c) = c THEN 0 ELSE 1

localeCompare(a, b) ==
  LET primary == CompareRanks([i \in 1..Len(a) |-> CharRank(a[i])],
                              [i \in 1..Len(b) |-> CharRank(b[i])])
  IN IF primary # 0 THEN primary
     ELSE CompareRanks([i \in 1..Len(a) |-> CaseRank(a[i])],
                       [i \in 1..Len(b) |-> CaseRank(b[i])])

Ids(s) == {s[i].id : i \in 1..Len(s)}

(***************************************************************************)
(* The derived view, computed while the component renders.                 *)
(*   bookmarks.filter(title | url | getDomain(url) contains the query)     *)
(*            .sort(by sortBy)                                             *)
(* getDomain is a const declared after this statement, so a callback that  *)
(* reaches a getDomain call while rendering throws a ReferenceError.       *)
(***************************************************************************)
MatchesTitleOrUrl(b, q) ==
  \/ includes(toLowerCase(b.title), toLowerCase(q))
  \/ includes(toLowerCase(b.url), toLowerCase(q))

MatchesQuery(b, q) ==
  \/ MatchesTitleOrUrl(b, q)
  \/ includes(toLowerCase(getDomain(b.url)), toLowerCase(q))

\* the filter callback evaluates its third disjunct for some record
FilterCallsGetDomain(bs, q) ==
  \E i \in 1..Len(bs) : ~MatchesTitleOrUrl(bs[i], q)

\* a comparator that orders titles downwards
CompareByTitleDescending(sortBy, a, b) ==
  CASE sortBy = "title" -> localeCompare(b.title, a.title)
    [] sortBy = "domain" -> localeCompare(getDomain(a.url), getDomain(b.url))
    [] OTHER -> b.created_at - a.created_at

CompareBy(sortBy, a, b) ==
  CASE sortBy = "title" -> localeCompare(a.title, b.title)
    [] sortBy = "domain" -> localeCompare(getDomain(a.url), getDomain(b.url))
    [] OTHER -> b.created_at - a.created_at

\* bookmarks.filter(...): the records that match, in cache order
RECURSIVE FilterByQuery(_, _)
FilterByQuery(bs, q) ==
  IF bs = << >> THEN << >>
  ELSE (IF MatchesQuery(Head(bs), q) THEN <<Head(bs)>> ELSE << >>)
       \o FilterByQuery(Tail(bs), q)

\* Array.prototype.sort is stable: x goes after every element that does not
\* compare greater than it
RECURSIVE InsertSorted(_, _, _)
InsertSorted(x, s, sortBy) ==
  IF s = << >> THEN <<x>>
  ELSE IF CompareBy(sortBy, Head(s), x) <= 0
    THEN <<Head(s)>> \o InsertSorted(x, Tail(s), sortBy)
  ELSE <<x>> \o s

RECURSIVE StableSort(_, _)
StableSort(s, sortBy) ==
  IF s = << >> THEN << >>
  ELSE InsertSorted(s[Len(s)], StableSort(SubSeq(s, 1, Len(s) - 1), sortBy), sortBy)

\* the sort comparator runs when there are two or more records to order
SortCallsGetDomain(bs, q, sortBy) ==
  /\ sortBy = "domain"
  /\ Len(FilterByQuery(bs, q)) >= 2

RenderThrows(bs, q, sortBy) ==
  FilterCallsGetDomain(bs, q) \/ SortCallsGetDomain(bs, q, sortBy)

RenderError == "ReferenceError"

filteredBookmarks(bs, q, sortBy) ==
  IF RenderThrows(bs, q, sortBy) THEN RenderError
  ELSE StableSort(FilterByQuery(bs, q), sortBy)

\* filteredBookmarks.map(...): the card of a record shows getDomain(bookmark.url)
Card(b) == [bookmark |-> b, domain |-> getDomain(b.url)]

\* what a render puts on the screen: the cards of the derived view, or
\* nothing when computing the view threw
Render(bs, q, sortBy) ==
  IF RenderThrows(bs, q, sortBy) THEN [throws |-> TRUE, cards |-> << >>]
  ELSE LET shown == StableSort(FilterByQuery(bs, q), sortBy)
       IN [throws |-> FALSE, cards |-> [i \in 1..Len(shown) |-> Card(shown[i])]]

(***************************************************************************)
(* State.                                                                  *)
(***************************************************************************)
VARIABLES
  db,           \* remote store: the rows of table bookmarks
  nextId,       \* the identifier and timestamp the next inserted row gets
  remoteOps,    \* mutations made so far by other sessions and users
  net,          \* bag of requests awaiting the store and responses awaiting the client
  notifs,       \* change notifications the realtime channel has yet to deliver
  bookmarks,    \* useState<Bookmark[]>: the local cache
  selectedIds,  \* useState<string[]>: the Selection Set
  searchQuery,  \* view preference
  sortBy,       \* view preference
  loading,      \* an add is in flight (the submit button is disabled)
  isRefreshing, \* a refresh is in flight (the refresh button is disabled)
  crashed,      \* the last render threw: the component is unmounted
  view,         \* what the last render produced
  channels,     \* live subscriptions to the change feed
  darkMode,     \* view preference: the theme
  toast,        \* the transient notification on the screen, if any
  timers,       \* the dismissal timers yet to fire, each named by the toast it was set for
  toastSeq,     \* toasts shown so far
  intents,      \* handlers the user has invoked so far
  adding,       \* the title and url the addBookmark call in flight was started with
  deleted,      \* history: identifiers whose delete the store confirmed to this client
  added,        \* history: the adds the store confirmed to this client, as typed and as stored
  ev            \* history: the handler that ran last, its input and its outcome

vars ==
  <<db, nextId, remoteOps, net, notifs, bookmarks, selectedIds, searchQuery, sortBy,
    loading, isRefreshing, crashed, view, channels, darkMode, toast, timers, toastSeq,
    intents, adding, deleted, added, ev>>

remoteVars == <<db, nextId, remoteOps>>
viewPrefs == <<searchQuery, sortBy>>
uiVars == <<darkMode, toast, timers, toastSeq>>

NoArg == [title |-> EmptyStr, url |-> EmptyStr]

NoCause == [event |-> "NONE", id |-> 0]

\* useState<...|null>(null): no toast on the screen
NoToast == [id |-> 0, type |-> "none"]

\* the last handler that ran; sel is the Selection Set it started with, and
\* known, for a refresh, the adds confirmed before the refresh was issued
Ev(kind, ok, id, toasts, arg, cause) ==
  [kind |-> kind, ok |-> ok, id |-> id, toasts |-> toasts, arg |-> arg, cause |-> cause,
   sel |-> selectedIds, known |-> {}]

(***************************************************************************)
(* Inputs.                                                                 *)
(***************************************************************************)
AddTitles == {EmptyStr, StrGitHubPadded}
AddUrls == {EmptyStr, UrlExample, UrlGitHubPadded}
EditTitles == {Blank, StrOther}
EditUrls == {EmptyStr, UrlExample}
SearchQueries == {EmptyStr, StrGit}
SortKeys == {"date", "title", "domain"}
\* what the title lookup of the target page gives: nothing (failure) or a title
PageTitles == {EmptyStr, StrOther}

(***************************************************************************)
(* Messages between the client and the store. A request is answered by a   *)
(* response of the same type; data is the list of returned rows and error  *)
(* says that the store rejected the request (data is then null).           *)
(***************************************************************************)
Msg(type, phase, id, ids, arg, data, error, cause) ==
  [type |-> type, phase |-> phase, id |-> id, ids |-> ids, arg |-> arg,
   data |-> data, error |-> error, cause |-> cause]

Request(type, id, ids, arg, cause) ==
  Msg(type, "request", id, ids, arg, << >>, FALSE, cause)

Response(req, data, error) ==
  Msg(req.type, "response", req.id, req.ids, req.arg, data, error, req.cause)

Send(m) == net (+) SetToBag({m})
Receive(m) == net (-) SetToBag({m})
Pending(type, phase) == {m \in BagToSet(net) : m.type = type /\ m.phase = phase}
CanSend == BagCardinality(net) < MaxInflight

\* what started a refresh: the mount effect, the refresh button, or a notification
CauseMount == [event |-> "MOUNT", id |-> 0]
CauseManual == [event |-> "MANUAL", id |-> 0]

(***************************************************************************)
(* The remote store: table bookmarks under row level security.             *)
(***************************************************************************)
\* the commands that have a policy; a command without one touches no row
Policies == {"SELECT", "INSERT", "DELETE"}

\* using / with check (auth.uid() = user_id)
PolicyAllows(command, uid, row) == command \in Policies /\ uid = row.user_id

\* a store that keeps no title
NewRowUntitled(uid, title, url) ==
  [id |-> nextId, user_id |-> uid, title |-> EmptyStr, url |-> url, created_at |-> nextId]

NewRow(uid, title, url) ==
  [id |-> nextId, user_id |-> uid, title |-> title, url |-> url, created_at |-> nextId]

\* the rows added in earlier sessions, by this same component
SeedRow(i) ==
  [id |-> i, user_id |-> Owner,
   title |-> IF i % 2 = 1 THEN StrOther ELSE StrGitHub,
   url |-> IF i % 2 = 1 THEN UrlExample ELSE UrlGitHub,
   created_at |-> i]

SeedRows == {SeedRow(i) : i \in 1..MaxSeedRows}

\* order('created_at', { ascending: false })
RECURSIVE OrderByCreatedDesc(_)
OrderByCreatedDesc(rows) ==
  IF rows = {} THEN << >>
  ELSE LET newest == CHOOSE r \in rows : \A o \in rows : o.created_at <= r.created_at
       IN <<newest>> \o OrderByCreatedDesc(rows \ {newest})

\* a select with neither the policy nor the user_id filter
SelectRowsOfAll(rows, uid, userId) == OrderByCreatedDesc(rows)

\* select('*').eq('user_id', userId).order(...) as seen by uid
SelectRows(rows, uid, userId) ==
  OrderByCreatedDesc({r \in rows : PolicyAllows("SELECT", uid, r) /\ r.user_id = userId})

\* the postgres_changes filter user_id=eq.userId of the channel
Notify(event, rows) ==
  notifs \cup {[event |-> event, id |-> r.id] : r \in {x \in rows : x.user_id = Owner}}

InsertBudget ==
  nextId + Cardinality(Pending("insert", "request")) <= MaxSeedRows + MaxInserts

Reply(req, data, error) == Receive(req) (+) SetToBag({Response(req, data, error)})

clientVars ==
  <<bookmarks, selectedIds, searchQuery, sortBy, loading, isRefreshing, crashed, view,
    channels, uiVars, intents, deleted, adding, added>>

\* the store answers a select: the owner's rows, newest first, or a rejection
StoreSelect ==
  \E m \in Pending("select", "request"), fail \in BOOLEAN :
    /\ net' = Reply(m, IF fail THEN << >> ELSE SelectRows(db, Owner, Owner), fail)
    /\ ev' = Ev("StoreSelect", ~fail, 0, << >>, NoArg, m.cause)
    /\ UNCHANGED <<db, nextId, remoteOps, notifs, clientVars>>

\* insert([{title, url, user_id}]).select(): the new row comes back
StoreInsert ==
  \E m \in Pending("insert", "request"), fail \in BOOLEAN :
    LET row == NewRow(Owner, m.arg.title, m.arg.url)
        accepted == ~fail /\ PolicyAllows("INSERT", Owner, row)
    IN /\ db' = IF accepted THEN db \cup {row} ELSE db
       /\ nextId' = IF accepted THEN nextId + 1 ELSE nextId
       /\ notifs' = IF accepted THEN Notify("INSERT", {row}) ELSE notifs
       /\ net' = Reply(m, IF accepted THEN <<row>> ELSE << >>, ~accepted)
       /\ ev' = Ev("StoreInsert", accepted, IF accepted THEN row.id ELSE 0, << >>, NoArg, NoCause)
       /\ UNCHANGED <<remoteOps, clientVars>>

\* delete().eq('id', id) and delete().in('id', ids): the rows the policy lets go
StoreDelete ==
  \E m \in Pending("delete", "request") \cup Pending("deleteIn", "request"), fail \in BOOLEAN :
    LET gone == IF fail THEN {}
                ELSE {r \in db : r.id \in m.ids /\ PolicyAllows("DELETE", Owner, r)}
    IN /\ db' = db \ gone
       /\ notifs' = Notify("DELETE", gone)
       /\ net' = Reply(m, << >>, fail)
       /\ ev' = Ev("StoreDelete", ~fail, m.id, << >>, NoArg, NoCause)
       /\ UNCHANGED <<nextId, remoteOps, clientVars>>

\* update({title, url}).eq('id', id): the rows the policy lets change; an
\* update that changes no row is no error
StoreUpdate ==
  \E m \in Pending("update", "request"), fail \in BOOLEAN :
    LET hit == IF fail THEN {}
               ELSE {r \in db : r.id = m.id /\ PolicyAllows("UPDATE", Owner, r)}
        new == {[r EXCEPT !.title = m.arg.title, !.url = m.arg.url] : r \in hit}
    IN /\ db' = (db \ hit) \cup new
       /\ notifs' = Notify("UPDATE", new)
       /\ net' = Reply(m, << >>, fail)
       /\ ev' = Ev("StoreUpdate", ~fail, m.id, << >>, NoArg, NoCause)
       /\ UNCHANGED <<nextId, remoteOps, clientVars>>

\* another session of the owner, or another user, runs the same add
RemoteInsert ==
  \E uid \in {Owner, OtherUser} :
    LET row == NewRow(uid, StrOther, UrlExample)
    IN /\ remoteOps < MaxRemoteOps
       /\ InsertBudget
       /\ PolicyAllows("INSERT", uid, row)
       /\ db' = db \cup {row}
       /\ nextId' = nextId + 1
       /\ remoteOps' = remoteOps + 1
       /\ notifs' = Notify("INSERT", {row})
       /\ ev' = Ev("RemoteInsert", TRUE, row.id, << >>, NoArg, NoCause)
       /\ UNCHANGED <<net, clientVars>>

\* another session of the row's owner deletes it
RemoteDelete ==
  \E row \in db :
    /\ remoteOps < MaxRemoteOps
    /\ PolicyAllows("DELETE", row.user_id, row)
    /\ db' = db \ {row}
    /\ remoteOps' = remoteOps + 1
    /\ notifs' = Notify("DELETE", {row})
    /\ ev' = Ev("RemoteDelete", TRUE, row.id, << >>, NoArg, NoCause)
    /\ UNCHANGED <<nextId, net, clientVars>>

(***************************************************************************)
(* The client: BookmarkList. Every handler ends with a render of the new   *)
(* state; a render that throws unmounts the component.                     *)
(***************************************************************************)
\* a cleanup that leaves the channel subscribed
removeChannelLeaks(live) == live

\* supabase.removeChannel(channel) in the effect's cleanup
removeChannel(live) == live - 1

\* supabase.channel('bookmarks-changes').on(...).subscribe()
subscribe(live) == live + 1

\* the render after a handler; live is the number of subscriptions the
\* handler leaves, and a render that throws unmounts the component, which
\* runs the cleanup of its effect
RenderedWith(live) ==
  /\ view' = Render(bookmarks', searchQuery', sortBy')
  /\ crashed' = view'.throws
  /\ channels' = IF view'.throws THEN removeChannel(live) ELSE live

Rendered == RenderedWith(channels)

\* a handler the user invokes
UserIntent == ~crashed /\ intents < MaxIntents /\ intents' = intents + 1
\* a handler a response or a notification invokes
Callback == ~crashed /\ UNCHANGED intents

Elems(s) == {s[i] : i \in 1..Len(s)}

RECURSIVE WithoutId(_, _)
WithoutId(s, ids) ==
  IF s = << >> THEN << >>
  ELSE (IF Head(s) \in ids THEN << >> ELSE <<Head(s)>>) \o WithoutId(Tail(s), ids)

RECURSIVE WithoutRows(_, _)
WithoutRows(bs, ids) ==
  IF bs = << >> THEN << >>
  ELSE (IF Head(bs).id \in ids THEN << >> ELSE <<Head(bs)>>) \o WithoutRows(Tail(bs), ids)

\* fetchTitleFromUrl: the page's title, or the domain when there is none
fetchTitleFromUrl(url, pageTitle) ==
  IF pageTitle # EmptyStr THEN pageTitle ELSE getDomain(url)

\* bookmarks.some(b => b.url === url.trim())
isDuplicate(bs, url) == \E i \in 1..Len(bs) : bs[i].url = trim(url)

\* a refresh that applies the result only when there is none
afterFetchInverted(prev, m) == IF m.error THEN m.data ELSE prev

\* if (data) setBookmarks(data)
afterFetch(prev, m) == IF ~m.error THEN m.data ELSE prev

\* an add that puts the returned row last
afterAddAppends(prev, m) ==
  IF m.data # << >> /\ ~m.error THEN prev \o <<m.data[1]>> ELSE prev

\* if (data && !error) setBookmarks(prev => [data[0], ...prev])
afterAdd(prev, m) ==
  IF m.data # << >> /\ ~m.error THEN <<m.data[1]>> \o prev ELSE prev

\* an edit that patches every record
PatchedAll(bs, id, arg) ==
  [i \in 1..Len(bs) |-> [bs[i] EXCEPT !.title = arg.title, !.url = arg.url]]

\* prev.map(b => b.id === id ? { ...b, title, url } : b)
Patched(bs, id, arg) ==
  [i \in 1..Len(bs) |->
     IF bs[i].id = id THEN [bs[i] EXCEPT !.title = arg.title, !.url = arg.url] ELSE bs[i]]

\* if (!error) setBookmarks(prev => prev.map(...))
afterEdit(prev, m) == IF ~m.error THEN Patched(prev, m.id, m.arg) ELSE prev

\* a delete that removes the records before looking at the error
afterDeleteOptimistic(prev, m) == WithoutRows(prev, m.ids)

\* if (!error) setBookmarks(prev => prev.filter(b => b.id !== id)), and
\* setBookmarks(prev => prev.filter(b => !selectedIds.includes(b.id)))
afterDelete(prev, m) == IF ~m.error THEN WithoutRows(prev, m.ids) ELSE prev

\* a delete that empties the Selection Set
selectedAfterDeleteClears(prev, m) == IF ~m.error THEN << >> ELSE prev

\* if (!error) setSelectedIds(prev => prev.filter(selectedId => selectedId !== id))
selectedAfterDelete(prev, m) == IF ~m.error THEN WithoutId(prev, {m.id}) ELSE prev

\* a bulk delete that takes only the deleted identifiers out of the Selection Set
selectedAfterBulkDeleteFilters(prev, m) == IF ~m.error THEN WithoutId(prev, m.ids) ELSE prev

\* if (!error) setSelectedIds([])
selectedAfterBulkDelete(prev, m) == IF ~m.error THEN << >> ELSE prev

\* showToast in the two branches of a response handler
toastAfter(ok) == IF ok THEN <<"success">> ELSE <<"error">>

\* history carried by a select: the adds confirmed before it was issued
AddedIds == {a.row.id : a \in added}

\* a refresh that sends nothing
fetchBookmarksCallSkipped(cause) == UNCHANGED <<isRefreshing, net>>

\* fetchBookmarks, first half: the select is sent
fetchBookmarksCall(cause) ==
  /\ CanSend
  /\ isRefreshing' = TRUE
  /\ net' = Send(Request("select", 0, AddedIds, NoArg, cause))

\* the refresh button
fetchBookmarks ==
  /\ UserIntent /\ ~isRefreshing
  /\ fetchBookmarksCall(CauseManual)
  /\ ev' = Ev("fetchBookmarks", TRUE, 0, << >>, NoArg, CauseManual)
  /\ UNCHANGED <<remoteVars, uiVars, notifs, bookmarks, selectedIds, viewPrefs, loading, deleted, adding, added>>
  /\ Rendered

\* the postgres_changes callback: any event starts a refresh
onRealtimeEvent ==
  \E n \in notifs :
    /\ Callback
    /\ channels >= 1
    /\ notifs' = notifs \ {n}
    /\ fetchBookmarksCall(n)
    /\ ev' = Ev("onRealtimeEvent", TRUE, n.id, << >>, NoArg, n)
    /\ UNCHANGED <<remoteVars, uiVars, bookmarks, selectedIds, viewPrefs, loading, deleted, adding, added>>
    /\ Rendered

\* fetchBookmarks, second half: if (data) setBookmarks(data)
fetchBookmarksDone ==
  \E m \in Pending("select", "response") :
    /\ Callback
    /\ net' = Receive(m)
    /\ bookmarks' = afterFetch(bookmarks, m)
    /\ isRefreshing' = FALSE
    /\ ev' = [Ev("fetchBookmarksDone", ~m.error, m.cause.id, << >>, NoArg, m.cause)
               EXCEPT !.known = m.ids]
    /\ UNCHANGED <<remoteVars, uiVars, notifs, selectedIds, viewPrefs, loading, deleted, adding, added>>
    /\ Rendered

\* addBookmark up to the insert
addBookmark ==
  \E title \in AddTitles, url \in AddUrls, pageTitle \in PageTitles :
    LET arg == [title |-> title, url |-> url]
        finalTitle == IF trim(title) = EmptyStr
                        THEN fetchTitleFromUrl(trim(url), pageTitle)
                        ELSE trim(title)
    IN /\ UserIntent /\ ~loading
       /\ IF trim(title) = EmptyStr \/ trim(url) = EmptyStr
            THEN /\ ev' = Ev("addBookmark", FALSE, 0, << >>, arg, NoCause)
                 /\ UNCHANGED <<net, loading, adding>>
          ELSE IF isDuplicate(bookmarks, url)
            THEN /\ ev' = Ev("addBookmark", FALSE, 0, <<"error">>, arg, NoCause)
                 /\ UNCHANGED <<net, loading, adding>>
          ELSE /\ CanSend /\ InsertBudget
               /\ loading' = TRUE
               /\ adding' = arg
               /\ net' = Send(Request("insert", 0, {},
                                      [title |-> finalTitle, url |-> trim(url)], NoCause))
               /\ ev' = Ev("addBookmark", TRUE, 0, << >>, arg, NoCause)
       /\ UNCHANGED <<remoteVars, uiVars, notifs, bookmarks, selectedIds, viewPrefs, isRefreshing,
                      deleted, added>>
       /\ Rendered

\* addBookmark after the insert: the returned row goes first
addBookmarkDone ==
  \E m \in Pending("insert", "response") :
    /\ Callback
    /\ net' = Receive(m)
    /\ bookmarks' = afterAdd(bookmarks, m)
    /\ LET ok == m.data # << >> /\ ~m.error
       IN ev' = Ev("addBookmarkDone", ok, IF ok THEN m.data[1].id ELSE 0, toastAfter(ok),
                   m.arg, NoCause)
    /\ added' = IF m.data # << >> /\ ~m.error
                   THEN added \cup {[title |-> adding.title, url |-> adding.url,
                                      row |-> m.data[1]]}
                   ELSE added
    /\ adding' = NoArg
    /\ loading' = FALSE
    /\ UNCHANGED <<remoteVars, uiVars, notifs, selectedIds, viewPrefs, isRefreshing, deleted>>
    /\ Rendered

\* deleteBookmark up to the delete (the confirmation dialog is answered yes)
deleteBookmark ==
  \E id \in Ids(bookmarks) :
    /\ UserIntent
    /\ CanSend
    /\ net' = Send(Request("delete", id, {id}, NoArg, NoCause))
    /\ ev' = Ev("deleteBookmark", TRUE, id, << >>, NoArg, NoCause)
    /\ UNCHANGED <<remoteVars, uiVars, notifs, bookmarks, selectedIds, viewPrefs, loading,
                   isRefreshing, deleted, adding, added>>
    /\ Rendered

deleteBookmarkDone ==
  \E m \in Pending("delete", "response") :
    /\ Callback
    /\ net' = Receive(m)
    /\ bookmarks' = afterDelete(bookmarks, m)
    /\ selectedIds' = selectedAfterDelete(selectedIds, m)
    /\ deleted' = IF ~m.error THEN deleted \cup m.ids ELSE deleted
    /\ ev' = Ev("deleteBookmarkDone", ~m.error, m.id, toastAfter(~m.error), NoArg, NoCause)
    /\ UNCHANGED <<remoteVars, uiVars, notifs, viewPrefs, loading, isRefreshing, adding, added>>
    /\ Rendered

\* editBookmark up to the update
editBookmark ==
  \E id \in Ids(bookmarks), editTitle \in EditTitles, editUrl \in EditUrls :
    LET arg == [title |-> editTitle, url |-> editUrl]
    IN /\ UserIntent
       /\ IF trim(editTitle) = EmptyStr \/ trim(editUrl) = EmptyStr
            THEN /\ ev' = Ev("editBookmark", FALSE, id, << >>, arg, NoCause)
                 /\ UNCHANGED net
            ELSE /\ CanSend
                 /\ net' = Send(Request("update", id, {id},
                                        [title |-> trim(editTitle), url |-> trim(editUrl)],
                                        NoCause))
                 /\ ev' = Ev("editBookmark", TRUE, id, << >>, arg, NoCause)
       /\ UNCHANGED <<remoteVars, uiVars, notifs, bookmarks, selectedIds, viewPrefs, loading,
                      isRefreshing, deleted, adding, added>>
       /\ Rendered

editBookmarkDone ==
  \E m \in Pending("update", "response") :
    /\ Callback
    /\ net' = Receive(m)
    /\ bookmarks' = afterEdit(bookmarks, m)
    /\ ev' = Ev("editBookmarkDone", ~m.error, m.id, toastAfter(~m.error), m.arg, NoCause)
    /\ UNCHANGED <<remoteVars, uiVars, notifs, selectedIds, viewPrefs, loading, isRefreshing, deleted, adding, added>>
    /\ Rendered

\* a bulk delete that asks for the first selected identifier only
bulkDeleteRequestFirst(sel) == Request("deleteIn", 0, {sel[1]}, NoArg, NoCause)

\* supabase.from('bookmarks').delete().in('id', selectedIds)
bulkDeleteRequest(sel) == Request("deleteIn", 0, Elems(sel), NoArg, NoCause)

\* bulkDelete up to the delete: one request for the whole selection
bulkDelete ==
  /\ UserIntent
  /\ IF Len(selectedIds) = 0
       THEN /\ ev' = Ev("bulkDelete", FALSE, 0, << >>, NoArg, NoCause)
            /\ UNCHANGED net
       ELSE /\ CanSend
            /\ net' = Send(bulkDeleteRequest(selectedIds))
            /\ ev' = Ev("bulkDelete", TRUE, 0, << >>, NoArg, NoCause)
  /\ UNCHANGED <<remoteVars, uiVars, notifs, bookmarks, selectedIds, viewPrefs, loading, isRefreshing,
                 deleted, adding, added>>
  /\ Rendered

\* bulkDelete after the delete: selectedIds is the value the call started with
bulkDeleteDone ==
  \E m \in Pending("deleteIn", "response") :
    /\ Callback
    /\ net' = Receive(m)
    /\ bookmarks' = afterDelete(bookmarks, m)
    /\ selectedIds' = selectedAfterBulkDelete(selectedIds, m)
    /\ deleted' = IF ~m.error THEN deleted \cup m.ids ELSE deleted
    /\ ev' = Ev("bulkDeleteDone", ~m.error, 0, toastAfter(~m.error), NoArg, NoCause)
    /\ UNCHANGED <<remoteVars, uiVars, notifs, viewPrefs, loading, isRefreshing, adding, added>>
    /\ Rendered

\* the checkbox of a rendered bookmark
toggleSelect ==
  \E id \in Ids(bookmarks) :
    /\ UserIntent
    /\ selectedIds' = IF id \in Elems(selectedIds)
                        THEN WithoutId(selectedIds, {id})
                        ELSE Append(selectedIds, id)
    /\ ev' = Ev("toggleSelect", TRUE, id, << >>, NoArg, NoCause)
    /\ UNCHANGED <<remoteVars, uiVars, net, notifs, bookmarks, viewPrefs, loading, isRefreshing,
                   deleted, adding, added>>
    /\ Rendered

setSearchQuery ==
  \E q \in SearchQueries :
    /\ UserIntent
    /\ q # searchQuery
    /\ searchQuery' = q
    /\ ev' = Ev("setSearchQuery", TRUE, 0, << >>, NoArg, NoCause)
    /\ UNCHANGED <<remoteVars, uiVars, net, notifs, bookmarks, selectedIds, sortBy, loading,
                   isRefreshing, deleted, adding, added>>
    /\ Rendered

setSortBy ==
  \E k \in SortKeys :
    /\ UserIntent
    /\ k # sortBy
    /\ sortBy' = k
    /\ ev' = Ev("setSortBy", TRUE, 0, << >>, NoArg, NoCause)
    /\ UNCHANGED <<remoteVars, uiVars, net, notifs, bookmarks, selectedIds, searchQuery, loading,
                   isRefreshing, deleted, adding, added>>
    /\ Rendered

\* the theme button and Ctrl+D: setDarkMode(!darkMode). darkMode is a
\* dependency of the mount effect, so the render that follows tears the
\* effect down (removeChannel) and runs it again (fetchBookmarks, subscribe)
toggleTheme ==
  /\ UserIntent
  /\ darkMode' = ~darkMode
  /\ fetchBookmarksCall(CauseMount)
  /\ ev' = Ev("toggleTheme", TRUE, 0, << >>, NoArg, CauseMount)
  /\ UNCHANGED <<remoteVars, toast, timers, toastSeq, notifs, bookmarks, selectedIds,
                 viewPrefs, loading, deleted, adding, added>>
  /\ RenderedWith(subscribe(removeChannel(channels)))

(***************************************************************************)
(* The specification. The component has mounted: its effect has sent the   *)
(* first select and subscribed to the change feed.                         *)
(***************************************************************************)
Init ==
  /\ db = SeedRows
  /\ nextId = MaxSeedRows + 1
  /\ remoteOps = 0
  /\ net = SetToBag({Request("select", 0, {}, NoArg, CauseMount)})
  /\ notifs = {}
  /\ bookmarks = << >>
  /\ selectedIds = << >>
  /\ searchQuery = EmptyStr
  /\ sortBy = "date"
  /\ loading = FALSE
  /\ isRefreshing = TRUE
  /\ crashed = FALSE
  /\ view = Render(bookmarks, searchQuery, sortBy)
  /\ channels = subscribe(0)
  /\ darkMode = FALSE
  /\ toast = NoToast
  /\ timers = {}
  /\ toastSeq = 0
  /\ intents = 0
  /\ adding = NoArg
  /\ deleted = {}
  /\ added = {}
  /\ ev = Ev("mount", TRUE, 0, << >>, NoArg, CauseMount)

Next ==
  \/ StoreSelect
  \/ StoreInsert
  \/ StoreDelete
  \/ StoreUpdate
  \/ RemoteInsert
  \/ RemoteDelete
  \/ fetchBookmarks
  \/ onRealtimeEvent
  \/ fetchBookmarksDone
  \/ addBookmark
  \/ addBookmarkDone
  \/ deleteBookmark
  \/ deleteBookmarkDone
  \/ editBookmark
  \/ editBookmarkDone
  \/ bulkDelete
  \/ bulkDeleteDone
  \/ toggleSelect
  \/ setSearchQuery
  \/ setSortBy

Spec == Init /\ [][Next]_vars

\* the same system when the store rejects no request
NextReliable ==
  \/ StoreSelect /\ ev'.ok
  \/ StoreInsert /\ ev'.ok
  \/ StoreDelete /\ ev'.ok
  \/ StoreUpdate /\ ev'.ok
  \/ RemoteInsert
  \/ RemoteDelete
  \/ fetchBookmarks
  \/ onRealtimeEvent
  \/ fetchBookmarksDone
  \/ addBookmark
  \/ addBookmarkDone
  \/ deleteBookmark
  \/ deleteBookmarkDone
  \/ editBookmark
  \/ editBookmarkDone
  \/ bulkDelete
  \/ bulkDeleteDone
  \/ toggleSelect
  \/ setSearchQuery
  \/ setSortBy
SpecReliable == Init /\ [][NextReliable]_vars

\* the list on the screen, its view preferences and the change feed: what
\* the user can do without writing to the store
NextTheme ==
  \/ StoreSelect
  \/ RemoteInsert
  \/ RemoteDelete
  \/ fetchBookmarks
  \/ onRealtimeEvent
  \/ fetchBookmarksDone
  \/ toggleSelect
  \/ setSearchQuery
  \/ setSortBy
  \/ toggleTheme
SpecTheme == Init /\ [][NextTheme]_vars

(***************************************************************************)
(* The same system later in the session: the first select has been         *)
(* answered, and the user has ticked the checkboxes of some of the rows    *)
(* shown, in some order.                                                   *)
(***************************************************************************)
SelectionsOf(ids) ==
  {s \in UNION {[1..n -> ids] : n \in 0..Cardinality(ids)} :
     \A i, j \in 1..Len(s) : i # j => s[i] # s[j]}

InitSelected ==
  /\ db = SeedRows
  /\ nextId = MaxSeedRows + 1
  /\ remoteOps = 0
  /\ net = EmptyBag
  /\ notifs = {}
  /\ bookmarks = SelectRows(SeedRows, Owner, Owner)
  /\ selectedIds \in SelectionsOf(Ids(bookmarks))
  /\ searchQuery = EmptyStr
  /\ sortBy = "date"
  /\ loading = FALSE
  /\ isRefreshing = FALSE
  /\ crashed = FALSE
  /\ view = Render(bookmarks, searchQuery, sortBy)
  /\ channels = subscribe(0)
  /\ darkMode = FALSE
  /\ toast = NoToast
  /\ timers = {}
  /\ toastSeq = 0
  /\ intents = 0
  /\ adding = NoArg
  /\ deleted = {}
  /\ added = {}
  /\ ev = IF selectedIds = << >>
            THEN Ev("fetchBookmarksDone", TRUE, 0, << >>, NoArg, CauseMount)
            ELSE [Ev("toggleSelect", TRUE, selectedIds[Len(selectedIds)], << >>, NoArg,
                     NoCause)
                    EXCEPT !.sel = SubSeq(selectedIds, 1, Len(selectedIds) - 1)]

SpecSelected == InitSelected /\ [][Next]_vars

(***************************************************************************)
(* The derived view on its own: one render of a cache, a search query and  *)
(* a sort key drawn from the sets below.                                   *)
(***************************************************************************)
MaxCacheLen == 3

UrlMyWww == SchemeHttps \o <<"m","y">> \o Www \o <<"o","r","g">>
UrlWwwExample == SchemeHttps \o Www \o SubSeq(UrlExample, Len(SchemeHttps) + 1, Len(UrlExample))
UrlNoScheme == SubSeq(UrlGitHub, Len(SchemeHttps) + 1, Len(UrlGitHub))

\* the records a cache is made of: the two seed rows and three more
ViewRow(i) ==
  CASE i <= 2 -> SeedRow(i)
    [] i = 3 -> [id |-> 3, user_id |-> Owner, title |-> StrGit, url |-> UrlMyWww,
                 created_at |-> 3]
    [] i = 4 -> [id |-> 4, user_id |-> Owner, title |-> StrOther, url |-> UrlWwwExample,
                 created_at |-> 4]
    [] OTHER -> [id |-> 5, user_id |-> Owner, title |-> StrGitHub, url |-> UrlNoScheme,
                 created_at |-> 5]

ViewRows == {ViewRow(i) : i \in 1..5}

\* the caches of up to MaxCacheLen distinct records, in every order
Caches ==
  {c \in UNION {[1..n -> ViewRows] : n \in 0..MaxCacheLen} :
     \A i, j \in 1..Len(c) : i # j => c[i] # c[j]}

\* an in-place sort of the cache itself
cacheSortedInPlace(bs, q, key) ==
  IF RenderThrows(bs, q, key) THEN bs ELSE StableSort(bs, key)

\* bookmarks.filter(...) returns a new array, and it is that array .sort(...)
\* reorders: the array held in the state stays as it was
cacheAfterRender(bs, q, key) == bs

InitView ==
  /\ db = {}
  /\ nextId = 1
  /\ remoteOps = 0
  /\ net = EmptyBag
  /\ notifs = {}
  /\ bookmarks \in Caches
  /\ selectedIds = << >>
  /\ searchQuery \in SearchQueries
  /\ sortBy \in SortKeys
  /\ loading = FALSE
  /\ isRefreshing = FALSE
  /\ crashed = FALSE
  /\ view = [throws |-> FALSE, cards |-> << >>]
  /\ channels = subscribe(0)
  /\ darkMode = FALSE
  /\ toast = NoToast
  /\ timers = {}
  /\ toastSeq = 0
  /\ intents = 0
  /\ adding = NoArg
  /\ deleted = {}
  /\ added = {}
  /\ ev = Ev("mount", TRUE, 0, << >>, NoArg, CauseMount)

\* the component function runs: filteredBookmarks is computed and mapped to cards
RenderView ==
  /\ ev.kind = "mount"
  /\ bookmarks' = cacheAfterRender(bookmarks, searchQuery, sortBy)
  /\ UNCHANGED <<remoteVars, uiVars, net, notifs, selectedIds, viewPrefs, loading, isRefreshing,
                 intents, adding, deleted, added>>
  /\ Rendered
  /\ ev' = Ev("render", ~view'.throws, 0, << >>, NoArg, NoCause)

SpecView == InitView /\ [][RenderView]_vars

(***************************************************************************)
(* Properties.                                                             *)
(***************************************************************************)
Quiescent == net = EmptyBag /\ notifs = {} /\ ~crashed
DbIds == {r.id : r \in db}
View == filteredBookmarks(bookmarks, searchQuery, sortBy)
SubmitKinds == {"addBookmark", "deleteBookmark", "editBookmark", "bulkDelete"}
DoneKinds == {"addBookmarkDone", "deleteBookmarkDone", "editBookmarkDone", "bulkDeleteDone"}

\* C1: no two distinct entries of the local cache have the same trimmed url,
\* in any reachable state.
C1_UniqueUrls ==
  \A i, j \in 1..Len(bookmarks) :
    i # j => trim(bookmarks[i].url) # trim(bookmarks[j].url)

\* C2: once nothing is outstanding (no request, no response, no notification)
\* the local cache equals the owner's rows in the remote store, whatever the
\* order in which the responses arrived.
C2_Converged ==
  Quiescent => bookmarks = SelectRows(db, Owner, Owner)

\* C3: an identifier whose delete the store has confirmed is absent from the
\* local cache in every later state.
C3_DeletedStaysAbsent ==
  deleted \cap Ids(bookmarks) = {}

C5_EmptyTitleResolved ==
  (/\ ev.kind = "addBookmark"
   /\ trim(ev.arg.title) = EmptyStr
   /\ trim(ev.arg.url) # EmptyStr
   /\ ~isDuplicate(bookmarks, ev.arg.url))
    => /\ ev.ok
       /\ \E m \in Pending("insert", "request"), pageTitle \in PageTitles :
            /\ m.arg.url = trim(ev.arg.url)
            /\ m.arg.title = fetchTitleFromUrl(trim(ev.arg.url), pageTitle)

\* C6: an add whose trimmed url is empty or is the url of a cached record, and
\* an edit whose trimmed title or url is empty, send no request; the duplicate
\* add emits exactly one error notification.
C6_ValidationRejects ==
  /\ (ev.kind = "addBookmark"
        /\ (trim(ev.arg.url) = EmptyStr \/ isDuplicate(bookmarks, ev.arg.url)))
       => ~ev.ok
  /\ (ev.kind = "addBookmark" /\ isDuplicate(bookmarks, ev.arg.url))
       => ev.toasts = <<"error">>
  /\ (ev.kind = "editBookmark"
        /\ (trim(ev.arg.title) = EmptyStr \/ trim(ev.arg.url) = EmptyStr))
       => ~ev.ok

\* C7: submitting an add, edit, delete or bulk delete changes neither the cache
\* nor the Selection Set, and a failure response changes neither and emits
\* exactly one error notification.
C7_ChangedOnlyOnSuccess ==
  [][/\ ev'.kind \in SubmitKinds
          => (bookmarks' = bookmarks /\ selectedIds' = selectedIds)
     /\ (ev'.kind \in DoneKinds /\ ~ev'.ok)
          => (bookmarks' = bookmarks /\ selectedIds' = selectedIds
              /\ ev'.toasts = <<"error">>)]_vars

C7_Witness ==
  /\ ev.kind \in DoneKinds /\ ~ev.ok
  /\ ev.toasts = <<"error">>
  /\ Len(bookmarks) >= 2
  /\ selectedIds # << >>

\* C8: a refresh whose query the store rejects emits an error notification and
\* leaves the cache as it was.
C8_RejectedQuerySurfaced ==
  (ev.kind = "fetchBookmarksDone" /\ ~ev.ok) => ev.toasts = <<"error">>

\* C9: the handler of a successful insert response puts the returned record
\* first in the cache, followed by the previous elements in their order.
C9_AddPrepends ==
  [][(ev'.kind = "addBookmarkDone" /\ ev'.ok)
       => \E m \in Pending("insert", "response") :
            /\ ~m.error
            /\ Head(bookmarks') = m.data[1]
            /\ Head(bookmarks').id = ev'.id
            /\ Tail(bookmarks') = bookmarks]_vars

\* the add has prepended while its own notification is still undelivered
C9_Witness ==
  /\ ev.kind = "addBookmarkDone" /\ ev.ok
  /\ Len(bookmarks) >= 3
  /\ bookmarks[1].id = ev.id
  /\ [event |-> "INSERT", id |-> ev.id] \in notifs

\* C10: a successful edit of id keeps the length of the cache and every
\* record's identifier, owner and timestamp, leaves every record with another
\* identifier as it was, and gives the record id the new title and url.
C10_EditInPlace ==
  [][(ev'.kind = "editBookmarkDone" /\ ev'.ok)
       => /\ Len(bookmarks') = Len(bookmarks)
          /\ \A i \in 1..Len(bookmarks) :
               /\ bookmarks'[i].id = bookmarks[i].id
               /\ bookmarks'[i].created_at = bookmarks[i].created_at
               /\ bookmarks'[i].user_id = bookmarks[i].user_id
               /\ bookmarks[i].id # ev'.id => bookmarks'[i] = bookmarks[i]
               /\ bookmarks[i].id = ev'.id
                    => (bookmarks'[i].title = ev'.arg.title
                        /\ bookmarks'[i].url = ev'.arg.url)]_vars

C10_Witness ==
  /\ ev.kind = "editBookmarkDone" /\ ev.ok
  /\ Len(bookmarks) >= 2
  /\ bookmarks[2].id = ev.id
  /\ bookmarks[2].title = StrOther /\ bookmarks[2].url = UrlExample
  /\ bookmarks[1].title = StrGitHub

\* C11: a successful delete of id leaves in the cache the records whose id is
\* another one, in the order they had, and leaves in the Selection Set the
\* identifiers other than id, in the order they had.
C11_DeleteFrame ==
  [][(ev'.kind = "deleteBookmarkDone" /\ ev'.ok)
       => LET id == ev'.id
              Stays(b) == b.id # id
              StaysSelected(i) == i # id
          IN /\ bookmarks' = SelectSeq(bookmarks, Stays)
             /\ selectedIds' = SelectSeq(selectedIds, StaysSelected)]_vars

\* the deleted record was selected between two others that stay selected
C11_Witness ==
  /\ ev.kind = "deleteBookmarkDone" /\ ev.ok
  /\ Len(ev.sel) = 3 /\ ev.sel[2] = ev.id
  /\ selectedIds = <<ev.sel[1], ev.sel[3]>>
  /\ Len(bookmarks) = 2
  /\ ev.id \notin Ids(bookmarks)

\* C12 as stated: after the delete of a bookmark that was selected, and after
\* a bulk delete has completed, the Selection Set is empty.
C12_SelectionCleared ==
  /\ (ev.kind = "deleteBookmarkDone" /\ ev.ok /\ ev.id \in Elems(ev.sel))
       => selectedIds = << >>
  /\ ev.kind = "bulkDeleteDone" => selectedIds = << >>

\* C12 amended: the successful delete of a selected bookmark takes that
\* identifier alone out of the Selection Set; a bulk delete that succeeds
\* leaves the Selection Set empty, and one that fails leaves it as it was.
C12_SelectionAfterDeletes ==
  /\ (ev.kind = "deleteBookmarkDone" /\ ev.ok /\ ev.id \in Elems(ev.sel))
       => /\ Elems(selectedIds) = Elems(ev.sel) \ {ev.id}
          /\ Len(selectedIds) = Len(ev.sel) - 1
  /\ (ev.kind = "bulkDeleteDone" /\ ev.ok) => selectedIds = << >>
  /\ (ev.kind = "bulkDeleteDone" /\ ~ev.ok) => selectedIds = ev.sel

\* a selected bookmark was deleted and another one is still selected
C12_Witness ==
  /\ ev.kind = "deleteBookmarkDone" /\ ev.ok
  /\ Len(ev.sel) = 2 /\ ev.sel[1] = ev.id
  /\ selectedIds = <<ev.sel[2]>>
  /\ ev.sel[2] \in Ids(bookmarks)

\* C13: bulk delete with a non-empty Selection Set S adds one request to those
\* in flight, a delete of all the identifiers of S, and changes nothing else;
\* when that request succeeds the cache keeps the records whose identifier is
\* not in S, in their order, and the Selection Set is empty; bulk delete with
\* an empty Selection Set sends nothing and changes neither cache, Selection
\* Set nor store.
C13_BulkDelete ==
  [][/\ (ev'.kind = "bulkDelete" /\ selectedIds # << >>)
          => /\ \E m \in BagToSet(net') :
                  /\ net' = net (+) SetToBag({m})
                  /\ m.type = "deleteIn" /\ m.phase = "request"
                  /\ m.ids = {selectedIds[i] : i \in DOMAIN selectedIds}
             /\ bookmarks' = bookmarks /\ selectedIds' = selectedIds
     /\ (ev'.kind = "bulkDelete" /\ selectedIds = << >>)
          => (net' = net /\ bookmarks' = bookmarks /\ selectedIds' = selectedIds /\ db' = db)
     /\ (ev'.kind = "bulkDeleteDone" /\ ev'.ok)
          => \E m \in Pending("deleteIn", "response") :
               LET Stays(b) == b.id \notin m.ids
               IN /\ net' = net (-) SetToBag({m})
                  /\ bookmarks' = SelectSeq(bookmarks, Stays)
                  /\ selectedIds' = << >>]_vars

\* two selected records are gone after one bulk delete and a third is left
C13_Witness ==
  /\ ev.kind = "bulkDeleteDone" /\ ev.ok
  /\ Len(ev.sel) = 2
  /\ deleted = Elems(ev.sel)
  /\ Ids(bookmarks) \cap deleted = {}
  /\ Len(bookmarks) >= 1
  /\ selectedIds = << >>

\* C14: the handler of a change notification adds one select request to those
\* in flight, the refresh that notification caused, and leaves the cache, the
\* Selection Set and the store as they were.
C14_NotificationRefreshes ==
  [][ev'.kind = "onRealtimeEvent"
       => /\ ev'.cause \in notifs
          /\ \E m \in BagToSet(net') :
               /\ net' = net (+) SetToBag({m})
               /\ m.type = "select" /\ m.phase = "request"
               /\ m.cause = ev'.cause
          /\ bookmarks' = bookmarks
          /\ selectedIds' = selectedIds
          /\ db' = db]_vars

\* a delete notification has been handled: its refresh is in flight and the
\* cache still holds the deleted record
C14_Witness ==
  /\ ev.kind = "onRealtimeEvent"
  /\ ev.cause.event = "DELETE"
  /\ ev.cause.id \in Ids(bookmarks)
  /\ ev.cause.id \notin DbIds
  /\ \E m \in Pending("select", "request") : m.cause = ev.cause

\* C15: in every reachable state, every record of the local cache, every
\* record of the derived view and every record of a response on its way to
\* the session has the session's owner as its owner.
C15_OnlyOwnRows ==
  /\ \A i \in 1..Len(bookmarks) : bookmarks[i].user_id = Owner
  /\ \A i \in 1..Len(view.cards) : view.cards[i].bookmark.user_id = Owner
  /\ \A m \in BagToSet(net) : \A i \in 1..Len(m.data) : m.data[i].user_id = Owner

\* the store has answered a refresh while it holds another user's bookmark
C15_Witness ==
  /\ ev.kind = "StoreSelect" /\ ev.ok
  /\ \E r \in db : r.user_id = OtherUser
  /\ \E m \in Pending("select", "response") : ~m.error /\ Len(m.data) = MaxSeedRows
  /\ Len(bookmarks) >= 1

\* C16 as stated: when a refresh completes successfully that was issued after
\* the add of title t and url u had been confirmed, and the added row is still
\* in the store, the cache holds a record with the identifier and timestamp
\* of that row, title t, url u trimmed and the domain of u.
C16_RoundTripTitleAsTyped ==
  (ev.kind = "fetchBookmarksDone" /\ ev.ok)
    => \A a \in added :
         (a.row.id \in ev.known /\ a.row \in db)
           => \E i \in 1..Len(bookmarks) :
                /\ bookmarks[i].id = a.row.id
                /\ bookmarks[i].created_at = a.row.created_at
                /\ bookmarks[i].title = a.title
                /\ bookmarks[i].url = trim(a.url)
                /\ getDomain(bookmarks[i].url) = getDomain(a.url)

\* C16 amended: the same, with title t trimmed.
C16_RoundTrip ==
  (ev.kind = "fetchBookmarksDone" /\ ev.ok)
    => \A a \in added :
         (a.row.id \in ev.known /\ a.row \in db)
           => \E i \in 1..Len(bookmarks) :
                /\ bookmarks[i].id = a.row.id
                /\ bookmarks[i].created_at = a.row.created_at
                /\ bookmarks[i].title = trim(a.title)
                /\ bookmarks[i].url = trim(a.url)
                /\ getDomain(bookmarks[i].url) = getDomain(a.url)

\* the add of " GitHub" and " https://github.com " has come back in a refresh
\* issued after it
C16_Witness ==
  /\ ev.kind = "fetchBookmarksDone" /\ ev.ok
  /\ \E a \in added :
       /\ a.row.id \in ev.known /\ a.row \in db
       /\ a.title = StrGitHubPadded /\ a.url = UrlGitHubPadded
       /\ a.row.id > MaxSeedRows
       /\ \E i \in 1..Len(bookmarks) :
            /\ bookmarks[i] = a.row
            /\ bookmarks[i].title = StrGitHub
            /\ bookmarks[i].url = UrlGitHub
            /\ getDomain(bookmarks[i].url) = SubSeq(UrlGitHub, 9, Len(UrlGitHub))

\* C17: a render of any cache under any search query shows exactly the cache
\* records whose title, url or domain contains the query without regard to
\* case, each of them once.
C17_ViewIsFilter ==
  ev.kind = "render"
    => LET matching == {b \in Elems(bookmarks) : MatchesQuery(b, searchQuery)}
       IN /\ ~view.throws
          /\ {view.cards[i].bookmark : i \in 1..Len(view.cards)} = matching
          /\ Len(view.cards) = Cardinality(matching)

\* C18: the domain shown for a url that parses is its hostname without a
\* leading "www." and with any other "www." kept; for a url that does not
\* parse it is the url itself.
C18_DomainStripsLeadingWww ==
  \A i \in 1..Len(view.cards) :
    LET url == view.cards[i].bookmark.url
        host == hostname(url)
    IN view.cards[i].domain =
         IF ~URLParses(url) THEN url
         ELSE IF StartsWith(host, Www) THEN SubSeq(host, Len(Www) + 1, Len(host))
         ELSE host

\* C19 as stated: with sort key title, of two adjacent records of the view the
\* first title is not greater than the second when the two are compared
\* character by character by character code (upper case before lower case).
C19_TitleOrderByCharCode ==
  (ev.kind = "render" /\ sortBy = "title")
    => \A i \in 1..(Len(view.cards) - 1) :
         LET CharCodes == <<" ", ".", "/", ":">> \o UpperLetters \o LowerLetters
             Code(c) == CHOOSE k \in 1..Len(CharCodes) : CharCodes[k] = c
             Codes(t) == [k \in 1..Len(t) |-> Code(t[k])]
         IN CompareRanks(Codes(view.cards[i].bookmark.title),
                         Codes(view.cards[i + 1].bookmark.title)) <= 0

\* C19 amended: with sort key title, of two adjacent records of the view the
\* first title does not come after the second under localeCompare (letters
\* compared without regard to case, lower case first between titles equal up
\* to case), and records with equal titles keep their cache order.
C19_TitleOrderByLocale ==
  (ev.kind = "render" /\ sortBy = "title")
    => /\ \A i \in 1..(Len(view.cards) - 1) :
            localeCompare(view.cards[i].bookmark.title,
                          view.cards[i + 1].bookmark.title) <= 0
       /\ \A i, j \in 1..Len(view.cards) :
            (i < j /\ view.cards[i].bookmark.title = view.cards[j].bookmark.title)
              => \E k, l \in 1..Len(bookmarks) :
                   /\ k < l
                   /\ bookmarks[k] = view.cards[i].bookmark
                   /\ bookmarks[l] = view.cards[j].bookmark

\* three titles whose order by character code is the reverse
C19_Witness ==
  /\ ev.kind = "render" /\ sortBy = "title" /\ ~view.throws
  /\ Len(view.cards) = 3
  /\ view.cards[1].bookmark.title = StrGit
  /\ view.cards[2].bookmark.title = StrGitHub
  /\ view.cards[3].bookmark.title = StrOther

C21_UniqueIds ==
  \A i, j \in 1..Len(bookmarks) : i # j => bookmarks[i].id # bookmarks[j].id

\* C22: when an edit has been reported as successful and the edited row is
\* still in the remote store, the row in the store has the edited title and
\* url, so that a refresh returns what the cache shows.
C22_EditDurable ==
  (ev.kind = "editBookmarkDone" /\ ev.ok /\ ev.id \in DbIds)
    => \E r \in db : r.id = ev.id /\ r.title = ev.arg.title /\ r.url = ev.arg.url

\* C23: no render throws: for every cache, search query and sort key the
\* derived view is computed and is a list.
C23_RenderNeverThrows == ~view.throws

\* C24: in every reachable state every identifier of the Selection Set is the
\* identifier of a cache record, and no identifier is in the Selection Set
\* twice.
C24_SelectionWithinCache ==
  /\ Elems(selectedIds) \subseteq Ids(bookmarks)
  /\ \A i, j \in 1..Len(selectedIds) : i # j => selectedIds[i] # selectedIds[j]

C26_ViewPreferenceFrame ==
  [][ev'.kind \in {"setSearchQuery", "setSortBy", "toggleTheme"}
       => /\ net' = net
          /\ bookmarks' = bookmarks
          /\ selectedIds' = selectedIds
          /\ channels' = channels]_vars

(***************************************************************************)
(* The transient notification. Every handler that reports an outcome calls *)
(* showToast; here the handlers are left out and only their calls of       *)
(* showToast and the timers these calls start are kept.                    *)
(***************************************************************************)
MaxToasts == 9

ToastTypes == {"success", "error"}

otherThanToast ==
  <<remoteVars, net, notifs, bookmarks, selectedIds, viewPrefs, loading, isRefreshing,
    crashed, view, channels, darkMode, intents, adding, deleted, added>>

\* setToast({ message, type }); setTimeout(() => setToast(null), 3000)
showToast ==
  \E type \in ToastTypes :
    /\ ~crashed
    /\ toastSeq < MaxToasts
    /\ toastSeq' = toastSeq + 1
    /\ toast' = [id |-> toastSeq', type |-> type]
    /\ timers' = timers \cup {toastSeq'}
    /\ ev' = Ev("showToast", TRUE, toastSeq', <<type>>, NoArg, NoCause)
    /\ UNCHANGED otherThanToast

\* the timers have one delay, so they fire in the order they were set
nextTimer == CHOOSE t \in timers : \A u \in timers : t <= u

\* the callback of a timer: setToast(null)
toastTimeout ==
  /\ timers # {}
  /\ timers' = timers \ {nextTimer}
  /\ toast' = NoToast
  /\ ev' = Ev("toastTimeout", TRUE, nextTimer, << >>, NoArg, NoCause)
  /\ UNCHANGED <<toastSeq, otherThanToast>>

NextToast ==
  \/ showToast
  \/ toastTimeout
SpecToast == Init /\ [][NextToast]_vars

\* C27: the timer set for one notification never dismisses another one: when
\* a timer fires while a notification is on the screen, that notification is
\* the one the timer was set for
C27_TimerDismissesOwnToast ==
  [][ev'.kind = "toastTimeout" /\ toast # NoToast => toast.id = ev'.id]_vars

====
